---- MODULE Spec2Model ----
(***************************************************************************)
(* A model of pachctl's command front-end (src/server/cmd/pachctl/cmd):    *)
(* the version command, the port-forward supervisor, the migrate           *)
(* dispatcher, garbage-collect and the delete-all confirmation gate.  One  *)
(* behaviour is one invocation of one command.                             *)
(* Strings are sequences of chunks, "" is << >>, concatenation is \o.      *)
(***************************************************************************)
EXTENDS Integers, Sequences, FiniteSets, TLC

\* ------------------------------------------------------------------ bounds
\* Major versions range over 0..MaxVer.
MaxVer == 1
\* The confirmation input holds at most MaxLine bytes.
MaxLine == 2

\* ------------------------------------------------------------------ errors
\* A Go error value: nil, a plain error (errors.New / fmt.Errorf) or a gRPC
\* transport error, whose Error() text wraps the description.
NilErr == [nil |-> TRUE, rpc |-> FALSE, desc |-> << >>]

NewErr(msg) == [nil |-> FALSE, rpc |-> FALSE, desc |-> msg]

RpcErr(code, d) == [nil |-> FALSE, rpc |-> TRUE, desc |-> <<code>> \o d]

\* err.Error(): a transport error prints "rpc error: code = <c> desc = <d>".
ErrorText(e) ==
    IF e.rpc
    THEN <<"rpc error: code = ", Head(e.desc), " desc = ">> \o Tail(e.desc)
    ELSE e.desc

\* grpc.ErrorDesc: the description of a transport error, err.Error() otherwise.
ErrorDesc(e) == IF e.rpc THEN Tail(e.desc) ELSE ErrorText(e)

sanitizeErr(e) == IF e.nil THEN NilErr ELSE NewErr(ErrorDesc(e))

\* ---------------------------------------------------------------- versions
\* The components versions are drawn from; 12 has two digits, so that
\* formatting is more than a digit lookup.
Majors == 0 .. MaxVer
Minors == {4, 5, 12}
Micros == {0, 8}
Additionals == {<< >>, <<"r", "c", "1">>}

\* versionpb.Version
Versions ==
    [major : Majors, minor : Minors, micro : Micros, additional : Additionals]

\* version.Version, the version the pachctl binary was built as.
OwnVersions == {v \in Versions : v.major = 1 /\ v.micro = 0}

DigitChar(d) == <<"0", "1", "2", "3", "4", "5", "6", "7", "8", "9">>[d + 1]

\* fmt's %d of an unsigned number: its decimal digits.
RECURSIVE Itoa(_)
Itoa(n) == IF n < 10 THEN <<DigitChar(n)>>
           ELSE Itoa(n \div 10) \o <<DigitChar(n % 10)>>

\* version.PrettyPrintVersionNoAdditional: "<major>.<minor>.<micro>"
PrettyPrintVersionNoAdditional(v) ==
    Itoa(v.major) \o <<".">> \o Itoa(v.minor) \o <<".">> \o Itoa(v.micro)

\* version.PrettyPrintVersion: the same, followed by the additional qualifier.
PrettyPrintVersion(v) == PrettyPrintVersionNoAdditional(v) \o v.additional

\* ----------------------------------------------------------------- version
\* printVersionHeader and printVersion, as the text they write (the
\* tabwriter's column padding is left out).
VersionHeader == <<"COMPONENT\tVERSION\t\n">>
VersionRow(component, v) ==
    <<component, "\t">> \o PrettyPrintVersion(v) \o <<"\t\n">>

\* The error the version command returns when GetVersion fails with e.
VersionConnErr(addr, e) ==
    NewErr(<<"pachd\t(version unknown) : error connecting to pachd server at address (",
             addr, "): ">>
           \o ErrorText(sanitizeErr(e))
           \o <<"\n\nplease make sure pachd is up ('kubectl get all') and portforwarding is enabled\n">>)

\* ----------------------------------------------------------------- migrate
\* Values of the --from and --to flags; << >> is the flag left unset.
ExplicitVersions ==
    {<< >>, <<"1", ".", "4", ".", "8">>, <<"1", ".", "5", ".", "0">>}

Namespaces == {"default", "pach"}

\* What grpc.Dial can fail with, and what GetVersion can fail with.
DialErrs == {NewErr(<<"grpc: no transport security set">>)}
GetVersionErrs ==
    {RpcErr("Unavailable", <<"grpc: the connection is unavailable">>),
     RpcErr("DeadlineExceeded", <<"context deadline exceeded">>)}

TempFileErr == NewErr(<<"open /tmp/: permission denied">>)

\* The --migrate argument of the migration container.
MigrateArg(f, t) == <<"--migrate=">> \o f \o <<"-">> \o t

\* A job whose image is that of the target version.
JobSpecImageOfTo(f, t, own) ==
    [kind          |-> <<"Job">>,
     apiVersion    |-> <<"batch/v1">>,
     name          |-> <<"pach-migration">>,
     labels        |-> [suite |-> <<"pachyderm">>],
     containerName |-> <<"migration">>,
     image         |-> <<"pachyderm/pachd:">> \o t,
     command       |-> << <<"/pachd">>, MigrateArg(f, t) >>,
     restartPolicy |-> <<"OnFailure">>]

\* The batch.Job the command builds.
JobSpec(f, t, own) ==
    [kind          |-> <<"Job">>,
     apiVersion    |-> <<"batch/v1">>,
     name          |-> <<"pach-migration">>,
     labels        |-> [suite |-> <<"pachyderm">>],
     containerName |-> <<"migration">>,
     image         |-> <<"pachyderm/pachd:">> \o PrettyPrintVersion(own),
     command       |-> << <<"/pachd">>, MigrateArg(f, t) >>,
     restartPolicy |-> <<"OnFailure">>]

\* The canonical (sorted keys) JSON encoding of the job, as its sequence of
\* path/value pairs in document order.
Encode(job) ==
    << <<"apiVersion", job.apiVersion>>,
       <<"kind", job.kind>>,
       <<"metadata.labels.suite", job.labels.suite>>,
       <<"metadata.name", job.name>>,
       <<"spec.template.spec.containers[0].command[0]", job.command[1]>>,
       <<"spec.template.spec.containers[0].command[1]", job.command[2]>>,
       <<"spec.template.spec.containers[0].image", job.image>>,
       <<"spec.template.spec.containers[0].name", job.containerName>>,
       <<"spec.template.spec.restartPolicy", job.restartPolicy>> >>

\* What kubectl create can end with: its combined output and its error.
KubectlOutcomes ==
    {[out |-> <<"job \"pach-migration\" created">>, err |-> NilErr],
     [out |-> <<"Error from server (AlreadyExists)">>,
      err |-> NewErr(<<"exit status 1">>)]}

DiscoverErr(e) ==
    NewErr(<<"unable to discover cluster version; please provide the --from flag.  Error: ">>
           \o ErrorText(e))

SuccessMsg ==
    <<"Successfully launched migration.  To see the progress, use 'kubectl logs job/pach-migration'">>

NoFile == [exists |-> FALSE, open |-> FALSE, content |-> << >>]

\* The name ioutil.TempFile gives the file.
TmpName == <<"/tmp/", "081205234">>

\* The command line of the submission.
KubectlArgs(name) ==
    <<"kubectl", "create", "--validate=false", "-f">> \o name

\* -------------------------------------------------------------- delete-all
Chars == {"y", "Y", "n", "\n"}

RECURSIVE SeqsUpTo(_)
SeqsUpTo(n) ==
    IF n = 0 THEN {<< >>}
    ELSE LET S == SeqsUpTo(n - 1)
         IN S \cup {Append(s, c) : s \in {x \in S : Len(x) = n - 1}, c \in Chars}

EOF == NewErr(<<"EOF">>)
\* What reading standard input reports once its data is used up.
StdinEnds == {EOF, NewErr(<<"read /dev/stdin: input/output error">>)}

ClientErrs == {RpcErr("Unavailable", <<"grpc: the connection is unavailable">>)}
\* What a call of the client can return: nil, a transport error, or an error
\* the client has already reduced to its description.
DeleteAllOutcomes ==
    {NilErr, RpcErr("Unknown", <<"deleting repos: failed">>),
     NewErr(<<"deleting repos: failed">>)}
GarbageCollectOutcomes ==
    {NilErr, RpcErr("Unknown", <<"cannot collect: jobs are running">>),
     NewErr(<<"cannot collect: jobs are running">>)}


ConfirmPrompt ==
    <<"Are you sure you want to delete all repos, commits, files, pipelines and jobs? yN\n">>

\* A read that takes a last line without its delimiter as a line.
ReadBytesLenient(data, end, delim) ==
    LET hits == {i \in 1 .. Len(data) : data[i] = delim}
    IN IF hits # {}
       THEN [bytes |-> SubSeq(data, 1, CHOOSE i \in hits : \A j \in hits : i <= j),
             err |-> NilErr]
       ELSE [bytes |-> data, err |-> IF data = << >> THEN end ELSE NilErr]

\* bufio.Reader.ReadBytes(delim): the bytes up to and including the first
\* delimiter; with no delimiter before the input ends, the bytes read so far
\* and the error that ended the input.
ReadBytes(data, end, delim) ==
    LET hits == {i \in 1 .. Len(data) : data[i] = delim}
    IN IF hits # {}
       THEN [bytes |-> SubSeq(data, 1, CHOOSE i \in hits : \A j \in hits : i <= j),
             err |-> NilErr]
       ELSE [bytes |-> data, err |-> end]

\* A gate that proceeds unless the answer starts with n.
ConfirmedUnlessNo(bytes) == bytes[1] # "n"

\* The test on the first byte of the confirmation line.
Confirmed(bytes) == bytes[1] = "y" \/ bytes[1] = "Y"

\* ------------------------------------------------------------ port-forward
Tasks == {"pachd", "dashUI", "dashWS"}

\* What cmdutil.RunIO can return for the "sh" subprocess of a task.
ExitErr == NewErr(<<"sh: exit status 1">>)
RunOutcomes == {NilErr, ExitErr}

UIErr == NewErr(<<"UI not enabled, deploy with --dashboard">>)

PortForwardBanner ==
    <<"Pachd port forwarded\nDash websocket port forwarded\nDash UI port forwarded, navigate to localhost:",
      "uiPort", "\nCTRL-C to exit">>

\* Closures of which the websocket one, too, returns what RunIO returned.
TaskReturnLoud(t, r) ==
    CASE t = "pachd"  -> r
      [] t = "dashUI" -> IF ~r.nil THEN NewErr(<<"UI not enabled, deploy with --dashboard">>)
                         ELSE NilErr
      [] t = "dashWS" -> r

\* The value each task's closure returns to the group, given what RunIO
\* returned to it.
TaskReturn(t, r) ==
    CASE t = "pachd"  -> r
      [] t = "dashUI" -> IF ~r.nil THEN UIErr ELSE NilErr
      [] t = "dashWS" -> NilErr

\* The order in which the command launches its tasks.
LaunchOrder == <<"pachd", "dashUI", "dashWS">>

VARIABLES
    cmd,        \* the command invoked
    address,    \* the pachd address PachctlCmd was given
    pc,         \* position of the command's main goroutine
    retErr,     \* the error the command's Run function returned
    stdout,     \* what the command printed, in order
    taskPc,     \* per forwarding task: "idle", "running", "exited", "done"
    runResult,  \* per task: what RunIO returned
    spawns,     \* per task: how many subprocesses were spawned
    egErr,      \* errgroup.Group.err: the first non-nil error returned
    flags,      \* migrate's command line: --from, --to, --namespace
    ownVersion, \* version.Version
    from,       \* migrate's variable from
    to,         \* migrate's variable to
    dials,      \* calls of getVersionAPIClient
    gvCalls,    \* calls of GetVersion
    verErr,     \* the err of the block that discovers the cluster version
    clusterVersion, \* << >>, or <<the version GetVersion returned>>
    jobSpec,    \* << >>, or <<the batch.Job built>>
    tmpFile,    \* the temporary file on disk
    tmpMade,    \* temporary files created by ioutil.TempFile
    kubectl,    \* the kubectl create invocations: file content read, out, err
    stdin,      \* delete-all's standard input: its data and how it ends
    line,       \* the bytes ReadBytes returned
    deleteCalls \* calls of client.DeleteAll

pfVars == <<taskPc, runResult, spawns, egErr>>
mgVars == <<flags, ownVersion, from, to, dials, gvCalls, verErr,
            clusterVersion, jobSpec, tmpFile, tmpMade, kubectl>>
daVars == <<stdin, line, deleteCalls>>
comVars == <<cmd, address, pc, retErr, stdout>>
vars == <<comVars, pfVars, mgVars, daVars>>

Commands ==
    {"version", "delete-all", "port-forward", "garbage-collect", "migrate"}

\* Values of the ADDRESS the command line is built for.
Addresses == {"127.0.0.1:30650", "pachd.example:650"}

NoFlags == [from |-> << >>, to |-> << >>, namespace |-> "default"]
NoStdin == [data |-> << >>, end |-> EOF]

Init ==
    /\ cmd \in Commands
    /\ address \in Addresses
    /\ pc = "start"
    /\ retErr = NilErr
    /\ stdout = << >>
    /\ taskPc = [t \in Tasks |-> "idle"]
    /\ runResult = [t \in Tasks |-> NilErr]
    /\ spawns = [t \in Tasks |-> 0]
    /\ egErr = NilErr
    /\ IF cmd = "migrate"
       THEN flags \in [from : ExplicitVersions, to : ExplicitVersions,
                       namespace : Namespaces]
       ELSE flags = NoFlags
    /\ IF cmd \in {"migrate", "version"}
       THEN ownVersion \in OwnVersions
       ELSE ownVersion = CHOOSE v \in OwnVersions : TRUE
    /\ from = flags.from
    /\ to = flags.to
    /\ dials = 0
    /\ gvCalls = 0
    /\ verErr = NilErr
    /\ clusterVersion = << >>
    /\ jobSpec = << >>
    /\ tmpFile = NoFile
    /\ tmpMade = 0
    /\ kubectl = << >>
    /\ IF cmd = "delete-all"
       THEN stdin \in [data : SeqsUpTo(MaxLine), end : StdinEnds]
       ELSE stdin = NoStdin
    /\ line = << >>
    /\ deleteCalls = 0

\* ------------------------------------------------------------ port-forward
Launched == {t \in Tasks : taskPc[t] # "idle"}

\* eg.Go(f): the next task's goroutine is started and spawns its subprocess.
PFGo ==
    /\ cmd = "port-forward"
    /\ pc = "start"
    /\ Cardinality(Launched) < Len(LaunchOrder)
    /\ LET t == LaunchOrder[Cardinality(Launched) + 1]
       IN /\ taskPc' = [taskPc EXCEPT ![t] = "running"]
          /\ spawns' = [spawns EXCEPT ![t] = @ + 1]
    /\ UNCHANGED <<comVars, runResult, egErr, mgVars, daVars>>

\* A banner that is printed only while no task has reported an error.
PFBannerIfOk ==
    /\ cmd = "port-forward"
    /\ pc = "start"
    /\ Launched = Tasks
    /\ stdout' = IF egErr.nil THEN Append(stdout, PortForwardBanner) ELSE stdout
    /\ pc' = "wait"
    /\ UNCHANGED <<cmd, address, retErr, pfVars, mgVars, daVars>>

\* fmt.Printf of the status banner, once the three eg.Go calls are made.
PFBanner ==
    /\ cmd = "port-forward"
    /\ pc = "start"
    /\ Launched = Tasks
    /\ stdout' = Append(stdout, PortForwardBanner)
    /\ pc' = "wait"
    /\ UNCHANGED <<cmd, address, retErr, pfVars, mgVars, daVars>>

\* The subprocess of task t ends and RunIO returns to the task's closure.
PFRunIO(t) ==
    /\ cmd = "port-forward"
    /\ pc \in {"start", "wait"}
    /\ taskPc[t] = "running"
    /\ \E r \in RunOutcomes : runResult' = [runResult EXCEPT ![t] = r]
    /\ taskPc' = [taskPc EXCEPT ![t] = "exited"]
    /\ UNCHANGED <<comVars, spawns, egErr, mgVars, daVars>>

\* A group that keeps the last non-nil error.
GroupErrLast(old, e) == IF ~e.nil THEN e ELSE old

\* What the group's error becomes when a task returns e: errOnce keeps the
\* first non-nil error.
GroupErr(old, e) == IF ~e.nil /\ old.nil THEN e ELSE old

\* The closure of task t returns: the group records its error and counts the
\* task as finished (wg.Done).
PFTaskDone(t) ==
    /\ cmd = "port-forward"
    /\ pc \in {"start", "wait"}
    /\ taskPc[t] = "exited"
    /\ egErr' = GroupErr(egErr, TaskReturn(t, runResult[t]))
    /\ taskPc' = [taskPc EXCEPT ![t] = "done"]
    /\ UNCHANGED <<comVars, runResult, spawns, mgVars, daVars>>

\* A Wait that returns as soon as some task has returned an error.
WaitReadyFailFast == (\A t \in Tasks : taskPc[t] = "done") \/ ~egErr.nil

\* eg.Wait() unblocks when the group's WaitGroup counter is zero.
WaitReady == \A t \in Tasks : taskPc[t] = "done"

\* return eg.Wait()
PFWait ==
    /\ cmd = "port-forward"
    /\ pc = "wait"
    /\ WaitReady
    /\ retErr' = egErr
    /\ pc' = "done"
    /\ UNCHANGED <<cmd, address, stdout, pfVars, mgVars, daVars>>

\* ----------------------------------------------------------------- migrate
\* if from == "": false, the flag's value is kept.
MGExplicitFrom ==
    /\ cmd = "migrate"
    /\ pc = "start"
    /\ from # << >>
    /\ pc' = "resolveTo"
    /\ UNCHANGED <<cmd, address, retErr, stdout, pfVars, mgVars, daVars>>

\* if from == "": versionClient, err := getVersionAPIClient(address)
MGDial ==
    /\ cmd = "migrate"
    /\ pc = "start"
    /\ from = << >>
    /\ dials' = dials + 1
    /\ verErr' \in DialErrs \cup {NilErr}
    /\ pc' = "dialed"
    /\ UNCHANGED <<cmd, address, retErr, stdout, pfVars, daVars, flags, ownVersion,
                   from, to, gvCalls, clusterVersion, jobSpec, tmpFile,
                   tmpMade, kubectl>>

\* if err != nil { return sanitizeErr(err) }
MGDialCheck ==
    /\ cmd = "migrate"
    /\ pc = "dialed"
    /\ IF ~verErr.nil
       THEN retErr' = sanitizeErr(verErr) /\ pc' = "done"
       ELSE pc' = "getVersion" /\ UNCHANGED retErr
    /\ UNCHANGED <<cmd, address, stdout, pfVars, mgVars, daVars>>

\* clusterVersion, err := versionClient.GetVersion(ctx, ...), under a
\* one-second timeout.
MGGetVersion ==
    /\ cmd = "migrate"
    /\ pc = "getVersion"
    /\ gvCalls' = gvCalls + 1
    /\ \/ /\ verErr' \in GetVersionErrs
          /\ UNCHANGED clusterVersion
       \/ /\ \E v \in Versions : clusterVersion' = <<v>>
          /\ verErr' = NilErr
    /\ pc' = "gotVersion"
    /\ UNCHANGED <<cmd, address, retErr, stdout, pfVars, daVars, flags, ownVersion,
                   from, to, dials, jobSpec, tmpFile, tmpMade, kubectl>>

\* A from that keeps the version's qualifier.
FromOfClusterWithAdditional(v) == PrettyPrintVersion(v)

\* The value from takes when the cluster reports version v.
FromOfCluster(v) == PrettyPrintVersionNoAdditional(v)

\* A discovery that, on a failed query, falls back to the binary's version.
MGFromClusterGuess ==
    /\ cmd = "migrate"
    /\ pc = "gotVersion"
    /\ from' = IF ~verErr.nil THEN PrettyPrintVersionNoAdditional(ownVersion)
               ELSE PrettyPrintVersionNoAdditional(clusterVersion[1])
    /\ pc' = "resolveTo"
    /\ UNCHANGED <<cmd, address, retErr, stdout, pfVars, daVars, flags, ownVersion, to,
                   dials, gvCalls, verErr, clusterVersion, jobSpec, tmpFile,
                   tmpMade, kubectl>>

\* if err != nil { return fmt.Errorf(...) }; from = ...(clusterVersion)
MGFromCluster ==
    /\ cmd = "migrate"
    /\ pc = "gotVersion"
    /\ IF ~verErr.nil
       THEN /\ retErr' = DiscoverErr(verErr)
            /\ pc' = "done"
            /\ UNCHANGED from
       ELSE /\ from' = FromOfCluster(clusterVersion[1])
            /\ pc' = "resolveTo"
            /\ UNCHANGED retErr
    /\ UNCHANGED <<cmd, address, stdout, pfVars, daVars, flags, ownVersion, to, dials,
                   gvCalls, verErr, clusterVersion, jobSpec, tmpFile, tmpMade,
                   kubectl>>

\* A to that is never defaulted, and a to that ignores the flag.
ResolveToSkipped(t, own) == t
ResolveToAlwaysOwn(t, own) == PrettyPrintVersionNoAdditional(own)

\* The value to takes: the flag's, or the binary's own version.
ResolveTo(t, own) ==
    IF t = << >> THEN PrettyPrintVersionNoAdditional(own) ELSE t

\* if to == "" { to = PrettyPrintVersionNoAdditional(version.Version) }
MGResolveTo ==
    /\ cmd = "migrate"
    /\ pc = "resolveTo"
    /\ to' = ResolveTo(to, ownVersion)
    /\ pc' = "build"
    /\ UNCHANGED <<cmd, address, retErr, stdout, pfVars, daVars, flags, ownVersion,
                   from, dials, gvCalls, verErr, clusterVersion, jobSpec, tmpFile,
                   tmpMade, kubectl>>

\* jobSpec := batch.Job{...}
MGBuild ==
    /\ cmd = "migrate"
    /\ pc = "build"
    /\ jobSpec' = <<JobSpec(from, to, ownVersion)>>
    /\ pc' = "tempFile"
    /\ UNCHANGED <<cmd, address, retErr, stdout, pfVars, daVars, flags, ownVersion,
                   from, to, dials, gvCalls, verErr, clusterVersion, tmpFile,
                   tmpMade, kubectl>>

\* ioutil.TempFile("", ""): an error ends the command; otherwise the file
\* exists, open and empty, and its removal is deferred.
MGTempFile ==
    /\ cmd = "migrate"
    /\ pc = "tempFile"
    /\ \/ /\ retErr' = TempFileErr
          /\ pc' = "done"
          /\ UNCHANGED <<tmpFile, tmpMade>>
       \/ /\ tmpFile' = [exists |-> TRUE, open |-> TRUE, content |-> << >>]
          /\ tmpMade' = tmpMade + 1
          /\ pc' = "encode"
          /\ UNCHANGED retErr
    /\ UNCHANGED <<cmd, address, stdout, pfVars, daVars, flags, ownVersion, from, to,
                   dials, gvCalls, verErr, clusterVersion, jobSpec, kubectl>>

\* jobSpec.CodecEncodeSelf(encoder); tmpFile.Close()
MGEncode ==
    /\ cmd = "migrate"
    /\ pc = "encode"
    /\ tmpFile' = [tmpFile EXCEPT !.content = Encode(jobSpec[1]),
                                  !.open = FALSE]
    /\ pc' = "submit"
    /\ UNCHANGED <<cmd, address, retErr, stdout, pfVars, daVars, flags, ownVersion,
                   from, to, dials, gvCalls, verErr, clusterVersion, jobSpec,
                   tmpMade, kubectl>>

\* A submission that passes the --namespace flag on to kubectl.
MGSubmitNamespaced ==
    /\ cmd = "migrate"
    /\ pc = "submit"
    /\ \E r \in KubectlOutcomes :
          kubectl' = Append(kubectl,
                            [args |-> <<"kubectl", "--namespace", flags.namespace,
                                        "create", "--validate=false", "-f">>
                                      \o TmpName,
                             file |-> tmpFile, out |-> r.out, err |-> r.err])
    /\ pc' = "echo"
    /\ UNCHANGED <<cmd, address, retErr, stdout, pfVars, daVars, flags,
                   ownVersion, from, to, dials, gvCalls, verErr,
                   clusterVersion, jobSpec, tmpFile, tmpMade>>

\* exec.Command("kubectl", "create", "--validate=false", "-f", name)
\* .CombinedOutput(): kubectl reads the file and ends with output and error.
MGSubmit ==
    /\ cmd = "migrate"
    /\ pc = "submit"
    /\ \E r \in KubectlOutcomes :
          kubectl' = Append(kubectl, [args |-> KubectlArgs(TmpName),
                                      file |-> tmpFile, out |-> r.out,
                                      err |-> r.err])
    /\ pc' = "echo"
    /\ UNCHANGED <<cmd, address, retErr, stdout, pfVars, daVars, flags, ownVersion,
                   from, to, dials, gvCalls, verErr, clusterVersion, jobSpec,
                   tmpFile, tmpMade>>

\* A submission whose error is not looked at.
AfterEchoIgnore(err) == "success"

\* A submission that is tried again when it fails.
AfterEchoRetry(err) == IF ~err.nil THEN "submit" ELSE "success"

\* Where the command goes after echoing the output: a failed submission
\* returns, running the deferred removal.
AfterEcho(err) == IF ~err.nil THEN "defer" ELSE "success"

\* An echo that comes after the error test: a failed submission's output
\* is not printed.
MGEchoOnSuccess ==
    /\ cmd = "migrate"
    /\ pc = "echo"
    /\ LET k == kubectl[Len(kubectl)]
       IN /\ stdout' = IF k.err.nil THEN Append(stdout, k.out) ELSE stdout
          /\ retErr' = IF ~k.err.nil THEN k.err ELSE retErr
          /\ pc' = IF ~k.err.nil THEN "defer" ELSE "success"
    /\ UNCHANGED <<cmd, address, pfVars, mgVars, daVars>>

\* fmt.Println(string(out)); if err != nil { return err }
MGEcho ==
    /\ cmd = "migrate"
    /\ pc = "echo"
    /\ LET k == kubectl[Len(kubectl)]
       IN /\ stdout' = Append(stdout, k.out)
          /\ retErr' = IF ~k.err.nil THEN k.err ELSE retErr
          /\ pc' = AfterEcho(k.err)
    /\ UNCHANGED <<cmd, address, pfVars, mgVars, daVars>>

\* fmt.Println("Successfully launched migration ..."); return nil
MGSuccess ==
    /\ cmd = "migrate"
    /\ pc = "success"
    /\ stdout' = Append(stdout, SuccessMsg)
    /\ retErr' = NilErr
    /\ pc' = "defer"
    /\ UNCHANGED <<cmd, address, pfVars, mgVars, daVars>>

\* The deferred os.Remove(tmpFile.Name()), run as the function returns.
MGDeferRemove ==
    /\ cmd = "migrate"
    /\ pc = "defer"
    /\ tmpFile' = NoFile
    /\ pc' = "done"
    /\ UNCHANGED <<cmd, address, retErr, stdout, pfVars, daVars, flags, ownVersion,
                   from, to, dials, gvCalls, verErr, clusterVersion, jobSpec,
                   tmpMade, kubectl>>

\* -------------------------------------------------------------- delete-all
\* client.NewMetricsClientFromAddress, which may fail.
DAClient ==
    /\ cmd = "delete-all"
    /\ pc = "start"
    /\ \/ /\ \E e \in ClientErrs : retErr' = sanitizeErr(e)
          /\ pc' = "done"
       \/ /\ pc' = "prompt"
          /\ UNCHANGED retErr
    /\ UNCHANGED <<cmd, address, stdout, pfVars, mgVars, daVars>>

\* fmt.Printf of the question.
DAPrompt ==
    /\ cmd = "delete-all"
    /\ pc = "prompt"
    /\ stdout' = Append(stdout, ConfirmPrompt)
    /\ pc' = "read"
    /\ UNCHANGED <<cmd, address, retErr, pfVars, mgVars, daVars>>

\* bytes, err := r.ReadBytes('\n'); if err != nil { return err }
DARead ==
    /\ cmd = "delete-all"
    /\ pc = "read"
    /\ LET r == ReadBytes(stdin.data, stdin.end, "\n")
       IN /\ line' = r.bytes
          /\ retErr' = IF ~r.err.nil THEN r.err ELSE retErr
          /\ pc' = IF ~r.err.nil THEN "done" ELSE "check"
    /\ UNCHANGED <<cmd, address, stdout, pfVars, mgVars, stdin, deleteCalls>>

\* if bytes[0] == 'y' || bytes[0] == 'Y' { ... } return nil
DACheck ==
    /\ cmd = "delete-all"
    /\ pc = "check"
    /\ pc' = IF Confirmed(line) THEN "delete" ELSE "done"
    /\ UNCHANGED <<cmd, address, retErr, stdout, pfVars, mgVars, daVars>>

\* return client.DeleteAll()
DADeleteAll ==
    /\ cmd = "delete-all"
    /\ pc = "delete"
    /\ deleteCalls' = deleteCalls + 1
    /\ \E e \in DeleteAllOutcomes : retErr' = e
    /\ pc' = "done"
    /\ UNCHANGED <<cmd, address, stdout, pfVars, mgVars, stdin, line>>

\* ----------------------------------------------------------------- version
\* The header and the pachctl row are written and flushed.
VPrintOwn ==
    /\ cmd = "version"
    /\ pc = "start"
    /\ stdout' = Append(stdout, VersionHeader \o VersionRow("pachctl", ownVersion))
    /\ pc' = "dial"
    /\ UNCHANGED <<cmd, address, retErr, pfVars, mgVars, daVars>>

\* versionClient, err := getVersionAPIClient(address)
VDial ==
    /\ cmd = "version"
    /\ pc = "dial"
    /\ dials' = dials + 1
    /\ verErr' \in DialErrs \cup {NilErr}
    /\ pc' = "dialed"
    /\ UNCHANGED <<cmd, address, retErr, stdout, pfVars, daVars, flags,
                   ownVersion, from, to, gvCalls, clusterVersion, jobSpec,
                   tmpFile, tmpMade, kubectl>>

\* if err != nil { return sanitizeErr(err) }
VDialCheck ==
    /\ cmd = "version"
    /\ pc = "dialed"
    /\ IF ~verErr.nil
       THEN retErr' = sanitizeErr(verErr) /\ pc' = "done"
       ELSE pc' = "getVersion" /\ UNCHANGED retErr
    /\ UNCHANGED <<cmd, address, stdout, pfVars, mgVars, daVars>>

\* version, err := versionClient.GetVersion(ctx, ...), under a one-second
\* timeout.
VGetVersion ==
    /\ cmd = "version"
    /\ pc = "getVersion"
    /\ gvCalls' = gvCalls + 1
    /\ \/ /\ verErr' \in GetVersionErrs
          /\ UNCHANGED clusterVersion
       \/ /\ \E v \in Versions : clusterVersion' = <<v>>
          /\ verErr' = NilErr
    /\ pc' = "gotVersion"
    /\ UNCHANGED <<cmd, address, retErr, stdout, pfVars, daVars, flags,
                   ownVersion, from, to, dials, jobSpec, tmpFile, tmpMade,
                   kubectl>>

\* if err != nil { return errors.New(...) }; the pachd row is written and
\* flushed.
VReport ==
    /\ cmd = "version"
    /\ pc = "gotVersion"
    /\ IF ~verErr.nil
       THEN /\ retErr' = VersionConnErr(address, verErr)
            /\ UNCHANGED stdout
       ELSE /\ stdout' = Append(stdout, VersionRow("pachd", clusterVersion[1]))
            /\ UNCHANGED retErr
    /\ pc' = "done"
    /\ UNCHANGED <<cmd, address, pfVars, mgVars, daVars>>

\* --------------------------------------------------------- garbage-collect
\* client, err := client.NewMetricsClientFromAddress(...);
\* if err != nil { return err }
GCClient ==
    /\ cmd = "garbage-collect"
    /\ pc = "start"
    /\ \/ /\ \E e \in ClientErrs : retErr' = e
          /\ pc' = "done"
       \/ /\ pc' = "collect"
          /\ UNCHANGED retErr
    /\ UNCHANGED <<cmd, address, stdout, pfVars, mgVars, daVars>>

\* return client.GarbageCollect()
GCCollect ==
    /\ cmd = "garbage-collect"
    /\ pc = "collect"
    /\ \E e \in GarbageCollectOutcomes : retErr' = e
    /\ pc' = "done"
    /\ UNCHANGED <<cmd, address, stdout, pfVars, mgVars, daVars>>

\* ------------------------------------------------------------------ process
\* The operator interrupts the process (CTRL-C): the Go runtime exits at
\* once and no deferred call runs.
Interrupt ==
    /\ pc \notin {"done", "killed"}
    /\ pc' = "killed"
    /\ UNCHANGED <<cmd, address, retErr, stdout, pfVars, mgVars, daVars>>

Next ==
    \/ PFGo
    \/ PFBanner
    \/ \E t \in Tasks : PFRunIO(t)
    \/ \E t \in Tasks : PFTaskDone(t)
    \/ PFWait
    \/ MGExplicitFrom
    \/ MGDial
    \/ MGDialCheck
    \/ MGGetVersion
    \/ MGFromCluster
    \/ MGResolveTo
    \/ MGBuild
    \/ MGTempFile
    \/ MGEncode
    \/ MGSubmit
    \/ MGEcho
    \/ MGSuccess
    \/ MGDeferRemove
    \/ DAClient
    \/ DAPrompt
    \/ DARead
    \/ DACheck
    \/ DADeleteAll
    \/ VPrintOwn
    \/ VDial
    \/ VDialCheck
    \/ VGetVersion
    \/ VReport
    \/ GCClient
    \/ GCCollect
    \/ Interrupt

Spec == Init /\ [][Next]_vars

\* ==================================================================
\* Properties
\* ==================================================================
AllTasksDone == \A t \in Tasks : taskPc[t] = "done"
PFReturned == cmd = "port-forward" /\ pc = "done"

\* C1: in port-forward, whenever the required pachd task did not fail, the
\* command's result is success, whatever the two dashboard tasks did.
C1_BestEffortNeverFails ==
    (PFReturned /\ runResult["pachd"].nil) => retErr.nil

\* C2: in port-forward, whenever the required pachd task failed, the result
\* is a failure and the error returned is the pachd task's error.
C2_RequiredErrorSurfaces ==
    (PFReturned /\ ~runResult["pachd"].nil)
        => (~retErr.nil /\ retErr = runResult["pachd"])

\* C3: port-forward returns, with success or failure, only after all three
\* launched tasks have completed.
C3_NoEarlyReturn ==
    PFReturned => (Launched = Tasks /\ AllTasksDone)

\* C3 witness: the command has returned a failure of the required task with
\* every task completed.
C3_Witness ==
    PFReturned /\ ~runResult["pachd"].nil /\ ~retErr.nil /\ AllTasksDone

\* C4: in migrate with --from unset, once the client construction or the
\* version query has failed, the command only ends, with an error; from
\* stays empty, no job is built, no temporary file is created and kubectl is
\* never invoked.
C4_ResolutionFailureAborts ==
    (cmd = "migrate" /\ ~verErr.nil)
        => /\ flags.from = << >>
           /\ pc \in {"dialed", "gotVersion", "done", "killed"}
           /\ (pc = "done" => ~retErr.nil)
           /\ from = << >>
           /\ jobSpec = << >>
           /\ tmpMade = 0
           /\ ~tmpFile.exists
           /\ kubectl = << >>

\* C4 witness: the version query failed and the command has returned.
C4_Witness ==
    /\ cmd = "migrate"
    /\ gvCalls = 1
    /\ verErr \in GetVersionErrs
    /\ pc = "done"
    /\ ~retErr.nil

JobStarted ==
    jobSpec # << >> \/ tmpFile.content # << >> \/ kubectl # << >>

\* C5: in migrate, whenever the job is built, serialized or submitted, from
\* and to are both non-empty, and they are the pair the job and every
\* submitted file carry.
C5_NeverUnresolved ==
    (cmd = "migrate" /\ JobStarted)
        => /\ from # << >>
           /\ to # << >>
           /\ jobSpec[1].command[2] = <<"--migrate=">> \o from \o <<"-">> \o to
           /\ tmpFile.content # << >> => tmpFile.content = Encode(jobSpec[1])
           /\ \A i \in 1 .. Len(kubectl) :
                 kubectl[i].file.content = Encode(jobSpec[1])

\* C5 witness: a job was submitted with neither flag given.
C5_Witness ==
    /\ cmd = "migrate"
    /\ flags.from = << >>
    /\ flags.to = << >>
    /\ kubectl # << >>

\* C6: with --from and --to both given, migrate keeps both values unchanged,
\* puts them in the job's --migrate=<from>-<to> argument, and never builds a
\* version client nor calls GetVersion.
C6_ExplicitUsedVerbatim ==
    (cmd = "migrate" /\ flags.from # << >> /\ flags.to # << >>)
        => /\ dials = 0
           /\ gvCalls = 0
           /\ from = flags.from
           /\ to = flags.to
           /\ jobSpec # << >> =>
                 jobSpec[1].command[2] =
                     <<"--migrate=">> \o flags.from \o <<"-">> \o flags.to

\* C6 witness: a job was submitted with both flags given and different.
C6_Witness ==
    /\ cmd = "migrate"
    /\ flags.from # << >>
    /\ flags.to # << >>
    /\ flags.from # flags.to
    /\ kubectl # << >>

\* Reading a formatted version back: its dot-separated fields as numbers.
RECURSIVE Fields(_)
Fields(s) ==
    IF \A i \in 1 .. Len(s) : s[i] # "."
    THEN <<s>>
    ELSE LET k == CHOOSE i \in 1 .. Len(s) :
                      s[i] = "." /\ \A j \in 1 .. (i - 1) : s[j] # "."
         IN <<SubSeq(s, 1, k - 1)>> \o Fields(SubSeq(s, k + 1, Len(s)))

Digits == {"0", "1", "2", "3", "4", "5", "6", "7", "8", "9"}
IsNumber(s) == s # << >> /\ \A i \in 1 .. Len(s) : s[i] \in Digits

RECURSIVE Atoi(_)
Atoi(s) ==
    IF s = << >> THEN 0
    ELSE 10 * Atoi(SubSeq(s, 1, Len(s) - 1))
         + (CHOOSE d \in 0 .. 9 : DigitChar(d) = s[Len(s)])

\* s is "<major>.<minor>.<micro>" of v and nothing more.
IsTripleOf(s, v) ==
    LET f == Fields(s)
    IN /\ Len(f) = 3
       /\ \A i \in 1 .. 3 : IsNumber(f[i])
       /\ Atoi(f[1]) = v.major
       /\ Atoi(f[2]) = v.minor
       /\ Atoi(f[3]) = v.micro

VersionsResolved ==
    cmd = "migrate" /\ pc \notin {"start", "dialed", "getVersion",
                                   "gotVersion", "resolveTo"}
                     /\ (pc \in {"done", "killed"} => jobSpec # << >>)

\* C7: once migrate has resolved its versions, a from left unset is the
\* version the cluster reported, as major.minor.micro without qualifier, and
\* a to left unset is the binary's own version in the same format, however
\* from was resolved.
C7_VersionDefaulting ==
    VersionsResolved
        => /\ flags.from = << >> =>
                 /\ clusterVersion # << >>
                 /\ IsTripleOf(from, clusterVersion[1])
           /\ flags.to = << >> => IsTripleOf(to, ownVersion)

\* C7 witness: from="", to="", own=1.5.0, live=1.4.8 (with a qualifier)
\* gives from=1.4.8 and to=1.5.0.
C7_Witness ==
    /\ VersionsResolved
    /\ flags.from = << >>
    /\ flags.to = << >>
    /\ clusterVersion # << >>
    /\ clusterVersion[1] = [major |-> 1, minor |-> 4, micro |-> 8,
                            additional |-> <<"r", "c", "1">>]
    /\ ownVersion.minor = 5
    /\ from = <<"1", ".", "4", ".", "8">>
    /\ to = <<"1", ".", "5", ".", "0">>

\* C8: once migrate has created the temporary file, the file is gone when
\* the command has ended in any way (return or interruption), and it is not
\* removed before kubectl was invoked.
C8_TmpAlwaysRemoved ==
    (cmd = "migrate" /\ tmpMade > 0)
        => /\ pc \in {"done", "killed"} => ~tmpFile.exists
           /\ ~tmpFile.exists => kubectl # << >>

HasLine(data) == \E i \in 1 .. Len(data) : data[i] = "\n"
SaysYes(data) == HasLine(data) /\ data[1] \in {"y", "Y"}

\* C9: in delete-all, DeleteAll is called only after a whole line starting
\* with y or Y was read and the gate has finished, at most once; and a
\* command that returned after such a line has called it exactly once.
C9_DeleteOnlyOnYes ==
    cmd = "delete-all"
        => /\ deleteCalls <= 1
           /\ (deleteCalls = 1 \/ pc = "delete") =>
                 /\ SaysYes(stdin.data)
                 /\ line # << >>
                 /\ line[Len(line)] = "\n"
                 /\ stdout = <<ConfirmPrompt>>
           /\ deleteCalls = 1 => pc = "done"
           /\ (pc = "done" /\ stdout # << >> /\ SaysYes(stdin.data)) =>
                 deleteCalls = 1

\* C9 witness: the line "Y\n" was read and DeleteAll was called once.
C9_Witness ==
    /\ cmd = "delete-all"
    /\ pc = "done"
    /\ line = <<"Y", "\n">>
    /\ deleteCalls = 1

\* C10: in delete-all, once the question was asked and the command has
\* returned: input that ended before a newline gives the read's error and no
\* deletion, even when it starts with y; a whole line not starting with y or
\* Y gives no error and no deletion.
C10_ReadFailureVsDeclined ==
    (cmd = "delete-all" /\ pc = "done" /\ stdout # << >>)
        => /\ ~HasLine(stdin.data) =>
                 (~retErr.nil /\ retErr = stdin.end /\ deleteCalls = 0)
           /\ (HasLine(stdin.data) /\ ~SaysYes(stdin.data)) =>
                 (retErr.nil /\ deleteCalls = 0)

\* C10 witness: the input "y" ended without a newline; the command returned
\* the read's error and deleted nothing.
C10_Witness ==
    /\ cmd = "delete-all"
    /\ pc = "done"
    /\ stdin.data = <<"y">>
    /\ retErr = stdin.end
    /\ deleteCalls = 0

Contains(msg, chunk) == \E i \in 1 .. Len(msg) : msg[i] = chunk

QueryFailed == gvCalls = 1 /\ verErr \in GetVersionErrs

\* C11: in version and in migrate, when the live-version query has failed
\* and the command has returned, the error returned names the server address;
\* in migrate it also tells the caller to provide --from.
C11_AddressInDiagnostic ==
    (cmd \in {"version", "migrate"} /\ pc = "done" /\ QueryFailed)
        => /\ ~retErr.nil
           /\ Contains(ErrorText(retErr), address)
           /\ cmd = "migrate" =>
                 Contains(ErrorText(retErr),
                          "unable to discover cluster version; please provide the --from flag.  Error: ")

\* An error as the operator sees it carries no transport wrapping.
Sanitized(e) == ~e.rpc /\ ~Contains(ErrorText(e), "rpc error: code = ")

\* C12: the error any command returns carries no transport wrapping, neither
\* as its own type nor inside its text.
C12_AllErrorsSanitized == pc = "done" => Sanitized(retErr)

\* C13: in one invocation GetVersion is called at most once, kubectl create
\* is run at most once, DeleteAll is called at most once and each forwarding
\* task spawns at most one subprocess, whatever fails.
C13_NoRetry ==
    /\ dials <= 1
    /\ gvCalls <= 1
    /\ Len(kubectl) <= 1
    /\ tmpMade <= 1
    /\ deleteCalls <= 1
    /\ \A t \in Tasks : spawns[t] <= 1

\* C13 witness: a migrate whose query succeeded and whose submission failed
\* has returned.
C13_Witness ==
    /\ cmd = "migrate"
    /\ pc = "done"
    /\ gvCalls = 1
    /\ Len(kubectl) = 1
    /\ ~kubectl[1].err.nil
    /\ ~retErr.nil

\* C14: the job migrate builds is a fixed function of the resolved from, the
\* resolved to and the binary's version: name pach-migration, label
\* suite=pachyderm, restart policy OnFailure, argument --migrate=<from>-<to>,
\* and an image made of the binary's version alone; the file written is the
\* encoding of that job.
C14_JobDeterministic ==
    (cmd = "migrate" /\ jobSpec # << >>)
        => /\ jobSpec[1] =
                 [kind          |-> <<"Job">>,
                  apiVersion    |-> <<"batch/v1">>,
                  name          |-> <<"pach-migration">>,
                  labels        |-> [suite |-> <<"pachyderm">>],
                  containerName |-> <<"migration">>,
                  image         |-> <<"pachyderm/pachd:">>
                                      \o PrettyPrintVersion(ownVersion),
                  command       |-> << <<"/pachd">>,
                                       <<"--migrate=">> \o from \o <<"-">> \o to >>,
                  restartPolicy |-> <<"OnFailure">>]
           /\ tmpFile.content # << >> =>
                 /\ tmpFile.content = Encode(jobSpec[1])
                 /\ Contains(tmpFile.content,
                             <<"spec.template.spec.containers[0].image",
                               <<"pachyderm/pachd:">>
                                   \o PrettyPrintVersion(ownVersion)>>)
                 /\ Contains(tmpFile.content,
                             <<"spec.template.spec.containers[0].command[1]",
                               <<"--migrate=">> \o from \o <<"-">> \o to>>)

\* C14 witness: a job was serialized whose image version differs from both
\* from and to.
C14_Witness ==
    /\ cmd = "migrate"
    /\ jobSpec # << >>
    /\ tmpFile.content # << >>
    /\ from # to
    /\ PrettyPrintVersion(ownVersion) # to
    /\ PrettyPrintVersion(ownVersion) # from

\* C15: migrate's steps come in order: the job is built from resolved
\* versions, the file is created after the job is built, kubectl is invoked
\* on the written and closed file, the success message follows a submission
\* without error only, and a failed submission makes the command return
\* kubectl's error.
C15_StepsInOrder ==
    cmd = "migrate"
        => /\ jobSpec # << >> => (from # << >> /\ to # << >>)
           /\ tmpMade > 0 => jobSpec # << >>
           /\ tmpFile.content # << >> => tmpMade > 0
           /\ kubectl # << >> =>
                 /\ kubectl[1].file.exists
                 /\ ~kubectl[1].file.open
                 /\ kubectl[1].file.content # << >>
                 /\ kubectl[1].file.content = Encode(jobSpec[1])
           /\ Contains(stdout, SuccessMsg) =>
                 (kubectl # << >> /\ kubectl[1].err.nil)
           /\ (pc = "done" /\ kubectl # << >>) =>
                 IF kubectl[1].err.nil
                 THEN retErr.nil /\ Contains(stdout, SuccessMsg)
                 ELSE retErr = kubectl[1].err /\ ~Contains(stdout, SuccessMsg)

\* C15 witness: a migrate has returned success after a submission without
\* error.
C15_Witness ==
    /\ cmd = "migrate"
    /\ pc = "done"
    /\ kubectl # << >>
    /\ kubectl[1].err.nil
    /\ Contains(stdout, SuccessMsg)
    /\ retErr.nil

\* C16: once migrate has invoked kubectl and gone past the echo, on its way
\* to returning or returned, the captured output is on standard output,
\* whether the submission failed or not.
C16_OutputEchoed ==
    (cmd = "migrate" /\ kubectl # << >> /\ pc \in {"success", "defer", "done"})
        => Contains(stdout, kubectl[1].out)

\* C16 witness: a failed submission's output was echoed and the command has
\* returned the error.
C16_Witness ==
    /\ cmd = "migrate"
    /\ pc = "done"
    /\ kubectl # << >>
    /\ ~kubectl[1].err.nil
    /\ stdout = <<kubectl[1].out>>

\* C17: in port-forward, the websocket task's failure never fails the
\* command, the error returned is never its error, and nothing is printed
\* for it: the result is nil when the pachd and UI subprocesses succeeded,
\* an error recorded or returned is the pachd task's or the UI task's, and
\* standard output holds at most the banner.
C17_SilentTaskDropped ==
    cmd = "port-forward"
        => /\ (pc = "done" /\ runResult["pachd"].nil /\ runResult["dashUI"].nil)
                 => retErr.nil
           /\ \A e \in {egErr, retErr} :
                 ~e.nil =>
                    \/ /\ e = runResult["pachd"]
                       /\ taskPc["pachd"] = "done"
                    \/ /\ e.desc = <<"UI not enabled, deploy with --dashboard">>
                       /\ ~runResult["dashUI"].nil
                       /\ taskPc["dashUI"] = "done"
           /\ \A i \in 1 .. Len(stdout) : stdout[i] = PortForwardBanner

\* C17 witness: the websocket subprocess failed, the other two succeeded,
\* and port-forward has returned nil.
C17_Witness ==
    /\ cmd = "port-forward"
    /\ pc = "done"
    /\ ~runResult["dashWS"].nil
    /\ runResult["pachd"].nil
    /\ runResult["dashUI"].nil
    /\ retErr.nil

JobTexts(job) ==
    {job.kind, job.apiVersion, job.name, job.labels.suite, job.containerName,
     job.image, job.command[1], job.command[2], job.restartPolicy}

\* C18: migrate's --namespace value reaches neither the job nor kubectl:
\* the job has no namespace field and none of its texts holds the value, and
\* the command line is kubectl create --validate=false -f <file>, the same
\* for every namespace.
C18_NamespaceUnused ==
    cmd = "migrate"
        => /\ jobSpec # << >> =>
                 /\ DOMAIN jobSpec[1] =
                        {"kind", "apiVersion", "name", "labels",
                         "containerName", "image", "command", "restartPolicy"}
                 /\ DOMAIN jobSpec[1].labels = {"suite"}
                 /\ \A txt \in JobTexts(jobSpec[1]) :
                        \A n \in Namespaces : ~Contains(txt, n)
           /\ \A i \in 1 .. Len(kubectl) :
                 /\ kubectl[i].args =
                        <<"kubectl", "create", "--validate=false", "-f">>
                            \o TmpName
                 /\ \A n \in Namespaces : ~Contains(kubectl[i].args, n)

\* C18 witness: a migrate given a namespace other than the default has
\* submitted its job.
C18_Witness ==
    /\ cmd = "migrate"
    /\ flags.namespace = "pach"
    /\ kubectl # << >>
    /\ pc = "done"

\* C19: in port-forward, a closure that returns a non-nil error while the
\* group holds none makes it the group's error; once the group holds an
\* error no later return changes it; and the command returns the group's
\* error.
C19_FirstErrorWins ==
    /\ [][cmd = "port-forward" =>
            \A t \in Tasks :
               (taskPc[t] = "exited" /\ taskPc'[t] = "done") =>
                  egErr' = IF egErr.nil
                           THEN (CASE t = "pachd" -> runResult[t]
                                   [] t = "dashUI" ->
                                        IF runResult[t].nil THEN NilErr
                                        ELSE NewErr(<<"UI not enabled, deploy with --dashboard">>)
                                   [] t = "dashWS" -> NilErr)
                           ELSE egErr]_vars
    /\ [](PFReturned => retErr = egErr)

\* C19 witness: the pachd and the UI subprocess both failed and the command
\* has returned the pachd task's error: the UI task's later error was
\* discarded.  (The other order, returning the UI task's error, is the
\* state that refutes C2.)
C19_Witness ==
    /\ PFReturned
    /\ ~runResult["pachd"].nil
    /\ ~runResult["dashUI"].nil
    /\ retErr = runResult["pachd"]

\* C20: in port-forward the banner is printed once, after the three tasks
\* are launched and before the wait, whatever the tasks have done: nothing
\* is printed before, and an execution that waits or has returned has
\* printed exactly the banner, also when every subprocess failed.
C20_BannerOnce ==
    cmd = "port-forward"
        => /\ pc = "start" => stdout = << >>
           /\ pc \in {"wait", "done"} => stdout = <<PortForwardBanner>>
           /\ Len(stdout) <= 1
           /\ stdout # << >> => (stdout = <<PortForwardBanner>> /\ Launched = Tasks)

\* C20 witness: every subprocess failed and the returned command has
\* printed the banner.
C20_Witness ==
    /\ PFReturned
    /\ \A t \in Tasks : ~runResult[t].nil
    /\ ~retErr.nil
    /\ stdout = <<PortForwardBanner>>

====
